---- MODULE Spec2Model ----
(***************************************************************************)
(* A model of the RepoMap MCP server (repomap_server.py): the file         *)
(* enumerator find_src_files, the project registry ProjectConfig, and the  *)
(* two tools repo_map and search_identifiers.  The map engine (RepoMap,    *)
(* repomap_class.py) is outside this file; its calls are modelled by their *)
(* outcomes.                                                               *)
(***************************************************************************)
EXTENDS Integers, Sequences, FiniteSets, TLC

VARIABLES
    fs,          \* the regular files below the project root, as relative paths
    root_kind,   \* what the root path names on disk: "dir", "file" or "none"
    pc,          \* position of the single call of the specification
    src_files,   \* the list find_src_files returned
    project_config, \* the module global of line 67: None or the loaded config
    file_tags,   \* what the engine's get_tags yields for the file a.py
    args,        \* the arguments of the tool call
    ret,         \* the dictionary the tool call returned
    matching_tags,  \* search_identifiers: matching_tags after the sort of line 287
    context_ranges, \* search_identifiers: the line ranges handed to render_tree
    rendered,    \* search_identifiers: the contexts render_tree gave back
    cwd,         \* the working directory of the server process
    engine_calls,   \* repo_map: the arguments handed to RepoMap.get_repo_map
    engine_outcome, \* repo_map: what the engine did ("none" when never reached)
    requests,    \* concurrent requests: arguments, position, locals and result
    engines      \* the RepoMap instances constructed so far, by identity

vars == <<fs, root_kind, pc, src_files, project_config, file_tags, args, ret,
          matching_tags, context_ranges, rendered, cwd, engine_calls,
          engine_outcome, requests, engines>>

\* what one call of search_identifiers leaves behind besides its result
searchObs == <<matching_tags, context_ranges, rendered>>

\* what one call of repo_map leaves behind besides its result
engineObs == <<engine_calls, engine_outcome>>

\* the state of the concurrent requests
concVars == <<requests, engines>>

\* ------------------------------------------------------------------
\* Bounds of the model
\* ------------------------------------------------------------------
MaxDepth == 2
MaxFiles == 2
MaxTags == 2
NumLines == 2
MaxContext == 1
MaxResults == 2

\* ------------------------------------------------------------------
\* Paths.  A path is a record [abs, parts]; a path relative to a
\* directory is the sequence of the components below it.
\* ------------------------------------------------------------------
DirNames == {"src", ".git", "node_modules", "__pycache__", "venv", "env"}
FileNames == {"a.py", ".hidden", "env"}

\* str.startswith('.') over the component names of the model
StartsWithDot(n) == n \in {".git", ".hidden"}

\* the literal set of line 21
ExcludedDirs == {"node_modules", "__pycache__", "venv", "env"}

ProjRoot == [abs |-> TRUE, parts |-> <<"proj">>]

\* the directory the server was started in
ServerDir == [abs |-> TRUE, parts |-> <<"srv">>]

\* Python's None
None == [none |-> TRUE]

\* os.path.join(r, f): the components of f appended to those of r
JoinPath(directory, rel) ==
    [abs |-> directory.abs, parts |-> directory.parts \o rel]

RECURSIVE RelPathsOfLen(_)
RelPathsOfLen(k) ==
    IF k = 1 THEN {<<f>> : f \in FileNames}
    ELSE {<<d>> \o p : d \in DirNames, p \in RelPathsOfLen(k - 1)}

RelPaths == UNION {RelPathsOfLen(k) : k \in 1..MaxDepth}

IsPrefix(p, q) == Len(p) <= Len(q) /\ SubSeq(q, 1, Len(p)) = p

\* a name is a file or a directory, never both
TreeOK(t) == \A p \in t, q \in t : p # q => ~IsPrefix(p, q)

\* the directory trees of at most MaxFiles files: one path or none per slot
TreeOf(slots) == {slots[i] : i \in DOMAIN slots} \ {<<>>}

\* ------------------------------------------------------------------
\* find_src_files
\* ------------------------------------------------------------------
RECURSIVE SeqOfSet(_)
\* the order in which the operating system lists a directory
SeqOfSet(S) ==
    IF S = {} THEN <<>>
    ELSE LET x == CHOOSE y \in S : TRUE IN <<x>> \o SeqOfSet(S \ {x})

\* f_list of os.walk: the non-directory entries of directory dir
WalkFiles(tree, dir) ==
    {p[Len(dir) + 1] : p \in {q \in tree : Len(q) = Len(dir) + 1 /\ IsPrefix(dir, q)}}

\* d of os.walk: the sub-directories of directory dir
WalkDirs(tree, dir) ==
    {p[Len(dir) + 1] : p \in {q \in tree : Len(q) > Len(dir) + 1 /\ IsPrefix(dir, q)}}

\* the pruning of line 21 without its startswith('.') test
KeepDirHidden(d_name) == d_name \notin ExcludedDirs

\* line 21: the in-place pruning of d
KeepDir(d_name) == ~StartsWithDot(d_name) /\ d_name \notin ExcludedDirs

\* line 23
KeepFile(f) == ~StartsWithDot(f)

RECURSIVE WalkFrom(_, _)
RECURSIVE WalkAll(_, _, _)
\* lines 20-24 for the directory dir and everything os.walk visits below it
WalkFrom(tree, dir) ==
    LET here == SeqOfSet({f \in WalkFiles(tree, dir) : KeepFile(f)})
        subs == SeqOfSet({d \in WalkDirs(tree, dir) : KeepDir(d)})
    IN  [i \in 1..Len(here) |-> dir \o <<here[i]>>] \o WalkAll(tree, dir, subs)

WalkAll(tree, dir, subs) ==
    IF subs = <<>> THEN <<>>
    ELSE WalkFrom(tree, dir \o <<Head(subs)>>) \o WalkAll(tree, dir, Tail(subs))

\* lines 16-25
find_src_files(directory, kind, tree) ==
    IF kind # "dir"
    THEN (IF kind = "file" THEN <<directory>> ELSE <<>>)
    ELSE LET rels == WalkFrom(tree, <<>>)
         IN  [i \in 1..Len(rels) |-> JoinPath(directory, rels[i])]

\* ------------------------------------------------------------------
\* Specification of the file enumerator alone
\* ------------------------------------------------------------------
InitFind ==
    /\ root_kind \in {"dir", "file", "none"}
    /\ \E slots \in [1..MaxFiles -> RelPaths \cup {<<>>}] :
          /\ fs = TreeOf(slots)
          /\ TreeOK(fs)
          /\ root_kind # "dir" => fs = {}
    /\ pc = "call"
    /\ src_files = <<>>
    /\ project_config = None
    /\ file_tags = <<>>
    /\ args = None
    /\ ret = None
    /\ matching_tags = <<>>
    /\ context_ranges = <<>>
    /\ rendered = <<>>
    /\ cwd = ServerDir
    /\ engine_calls = <<>>
    /\ engine_outcome = "none"
    /\ requests = <<>>
    /\ engines = <<>>

FindSrcFiles ==
    /\ pc = "call"
    /\ src_files' = find_src_files(ProjRoot, root_kind, fs)
    /\ pc' = "done"
    /\ UNCHANGED <<fs, root_kind, project_config, file_tags, args, ret,
                   searchObs, cwd, engineObs, concVars>>

NextFind == FindSrcFiles

SpecFind == InitFind /\ [][NextFind]_vars

\* the components of a returned path below the root
BelowRoot(path) == SubSeq(path.parts, Len(ProjRoot.parts) + 1, Len(path.parts))

\* neither hidden nor inside a dependency directory
Visible(rel) ==
    /\ \A k \in 1..Len(rel) : ~StartsWithDot(rel[k])
    /\ \A k \in 1..(Len(rel) - 1) : rel[k] \notin ExcludedDirs

\* C7: for a directory root, every path find_src_files returns has no
\* component below the root that starts with '.' and no directory component
\* named node_modules, __pycache__, venv or env, and every regular file below
\* the root whose path satisfies that is returned exactly once.
C7_FindSrcFilesExact ==
    (pc = "done" /\ root_kind = "dir") =>
        /\ \A i \in 1..Len(src_files) : Visible(BelowRoot(src_files[i]))
        /\ \A p \in fs :
              Visible(p) =>
                 Cardinality({i \in 1..Len(src_files) :
                                 src_files[i] = JoinPath(ProjRoot, p)}) = 1

\* a walk that skipped a hidden directory and a dependency directory and
\* returned a nested file and a file named like a dependency directory
C7_Witness ==
    /\ pc = "done"
    /\ root_kind = "dir"
    /\ <<"src", "env">> \in fs
    /\ \E p \in fs : Len(p) = 2 /\ p[1] \in ExcludedDirs \cup {".git"}
    /\ src_files = <<JoinPath(ProjRoot, <<"src", "env">>)>>

\* ------------------------------------------------------------------
\* ProjectConfig
\* ------------------------------------------------------------------
\* the empty string a lookup returns for an unknown project
NoRoot == [abs |-> FALSE, parts |-> <<>>]

\* the content of projects.json: one project, keyed "Demo"
LoadedConfig == [projects |-> [Demo |-> [root |-> ProjRoot]]]

\* str.lower() over the project names of the model
LowerKey(s) == IF s \in {"Demo", "DEMO", "demo"} THEN "demo" ELSE s

\* lines 58-63
get_project_root(config, project_name) ==
    LET hits == {key \in DOMAIN config.projects :
                    LowerKey(key) = LowerKey(project_name)}
    IN  IF hits = {} THEN NoRoot
        ELSE config.projects[CHOOSE key \in hits : TRUE].root

\* lines 70-83: the startup step of the server
Lifespan ==
    /\ project_config = None
    /\ project_config' = LoadedConfig
    /\ UNCHANGED <<fs, root_kind, pc, src_files, file_tags, args, ret,
                   searchObs, cwd, engineObs, concVars>>

\* ------------------------------------------------------------------
\* Strings are sequences of characters
\* ------------------------------------------------------------------
Min(a, b) == IF a < b THEN a ELSE b
Max(a, b) == IF a > b THEN a ELSE b

\* str.lower() on one character
Lower(c) == IF c = "A" THEN "a" ELSE IF c = "B" THEN "b" ELSE c

LowerStr(s) == [i \in 1..Len(s) |-> Lower(s[i])]

\* str.find: the lowest 0-based index at which sub occurs in s, or -1
Find(s, sub) ==
    LET at == {k \in 0..(Len(s) - Len(sub)) : SubSeq(s, k + 1, k + Len(sub)) = sub}
    IN  IF at = {} THEN -1 ELSE CHOOSE k \in at : \A j \in at : k <= j

\* the operator "sub in s" on strings
PyIn(sub, s) == Find(s, sub) # -1

\* ------------------------------------------------------------------
\* search_identifiers
\* ------------------------------------------------------------------
TagNames == {<<"a", "B">>, <<"b", "a">>}
Queries == {<<>>, <<"A">>, <<"b", "a">>}

\* the tags of a.py: on the first or on the last line of the file
Tags == [rel_fname : {<<"a.py">>}, name : TagNames,
         kind : {"def", "ref"}, line : {1, NumLines}]

RECURSIVE SeqsUpTo(_, _)
SeqsUpTo(S, n) ==
    IF n = 0 THEN {<<>>}
    ELSE LET shorter == SeqsUpTo(S, n - 1)
         IN  shorter \cup {Append(s, x) : s \in {t \in shorter : Len(t) = n - 1}, x \in S}

\* Path(file_path).relative_to(project_root)
RelativeTo(path, root) == SubSeq(path.parts, Len(root.parts) + 1, Len(path.parts))

\* RepoMap.get_tags: the tags the engine extracts from one file
get_tags(rel_path, tags_of_a_py) ==
    IF rel_path = <<"a.py">> THEN tags_of_a_py ELSE <<>>

RECURSIVE CollectTags(_, _, _)
\* lines 270-274
CollectTags(all_files, project_root, tags_of_a_py) ==
    IF all_files = <<>> THEN <<>>
    ELSE get_tags(RelativeTo(Head(all_files), project_root), tags_of_a_py)
            \o CollectTags(Tail(all_files), project_root, tags_of_a_py)

\* lines 281-283 with one of the two kinds forgotten
TagMatchesDefOnly(tag, query_lower, include_definitions, include_references) ==
    /\ PyIn(query_lower, LowerStr(tag.name))
    /\ tag.kind = "def" /\ include_definitions

\* lines 281-283 with the reference flag ignored
TagMatchesAnyRef(tag, query_lower, include_definitions, include_references) ==
    /\ PyIn(query_lower, LowerStr(tag.name))
    /\ \/ tag.kind = "def" /\ include_definitions
       \/ tag.kind = "ref"

\* lines 281-283
TagMatches(tag, query_lower, include_definitions, include_references) ==
    /\ PyIn(query_lower, LowerStr(tag.name))
    /\ \/ tag.kind = "def" /\ include_definitions
       \/ tag.kind = "ref" /\ include_references

\* lines 277-284
FilterTags(all_tags, query_lower, include_definitions, include_references) ==
    SelectSeq(all_tags,
              LAMBDA tag : TagMatches(tag, query_lower,
                                      include_definitions, include_references))

\* a sort key that ignores the position of the query
SortKeyKindOnly(x, query_lower) == <<x.kind # "def", 0>>

\* the key of line 287
SortKey(x, query_lower) ==
    <<x.kind # "def", Find(LowerStr(x.name), query_lower)>>

\* the order of Python on (bool, int) tuples
KeyLess(k1, k2) ==
    \/ k1[1] = FALSE /\ k2[1] = TRUE
    \/ k1[1] = k2[1] /\ k1[2] < k2[2]

RECURSIVE InsertTag(_, _, _)
\* x goes after every element whose key is not greater: the sort is stable
InsertTag(sorted, x, query_lower) ==
    IF sorted = <<>> THEN <<x>>
    ELSE IF KeyLess(SortKey(x, query_lower), SortKey(Head(sorted), query_lower))
         THEN <<x>> \o sorted
         ELSE <<Head(sorted)>> \o InsertTag(Tail(sorted), x, query_lower)

RECURSIVE SortTags(_, _)
\* list.sort(key=...) of line 287
SortTags(tags, query_lower) ==
    IF tags = <<>> THEN <<>>
    ELSE InsertTag(SortTags(SubSeq(tags, 1, Len(tags) - 1), query_lower),
                   tags[Len(tags)], query_lower)

\* the slice s[:n]
PySliceTo(s, n) ==
    IF n >= 0 THEN SubSeq(s, 1, Min(n, Len(s)))
    ELSE SubSeq(s, 1, Max(0, Len(s) + n))

\* lines 277-290 with the slice taken before the sort
LimitedMatchesSliceFirst(all_tags, a) ==
    SortTags(PySliceTo(FilterTags(all_tags, LowerStr(a.query),
                                  a.include_definitions, a.include_references),
                       a.max_results),
             LowerStr(a.query))

\* lines 277-290: filter, sort, then limit
LimitedMatches(all_tags, a) ==
    PySliceTo(SortTags(FilterTags(all_tags, LowerStr(a.query),
                                  a.include_definitions, a.include_references),
                       LowerStr(a.query)),
              a.max_results)

\* lines 298-300
ContextRange(tag, context_lines) ==
    [start_line |-> Max(1, tag.line - context_lines),
     end_line   |-> tag.line + context_lines]

\* lines 309-315
ResultEntry(tag, context) ==
    [file |-> tag.rel_fname, line |-> tag.line, name |-> tag.name,
     kind |-> tag.kind, context |-> context]

RECURSIVE FormatResults(_, _)
\* lines 293-315: an entry for every tag whose context is not empty
FormatResults(tags, contexts) ==
    IF tags = <<>> THEN <<>>
    ELSE (IF Head(contexts) # ""
          THEN <<ResultEntry(Head(tags), Head(contexts))>>
          ELSE <<>>) \o FormatResults(Tail(tags), Tail(contexts))

\* RepoMap.render_tree: the text of the requested lines, or nothing
Contexts == {"", "ctx"}

SearchArgs ==
    [project_name : {"DEMO"}, query : Queries,
     max_results : (-1)..MaxResults, context_lines : 0..MaxContext,
     include_definitions : BOOLEAN, include_references : BOOLEAN]
    \cup
    [project_name : {"other"}, query : {<<"A">>},
     max_results : {MaxResults}, context_lines : {0},
     include_definitions : {TRUE}, include_references : {TRUE}]

InitSearch ==
    /\ root_kind = "dir"
    /\ fs = {<<"a.py">>, <<".hidden">>}
    /\ pc = "call"
    /\ src_files = <<>>
    /\ project_config \in {None, LoadedConfig}
    /\ args \in SearchArgs
    /\ file_tags \in (IF args.project_name = "other" THEN {<<>>}
                      ELSE SeqsUpTo(Tags, MaxTags))
    /\ ret = None
    /\ matching_tags = <<>>
    /\ context_ranges = <<>>
    /\ rendered = <<>>
    /\ cwd = ServerDir
    /\ engine_calls = <<>>
    /\ engine_outcome = "none"
    /\ requests = <<>>
    /\ engines = <<>>

\* a call that returned before anything was searched
WithoutSearch(result) ==
    [ret |-> result, src_files |-> <<>>, matching_tags |-> <<>>,
     context_ranges |-> <<>>, rendered |-> <<>>]

\* lines 244-321.  context_of[i] is what render_tree returns for the i-th tag
\* it is asked about; raises says that the engine raises inside the try.
search_identifiers(config, a, kind, tree, tags_of_a_py, context_of, raises) ==
    IF config = None
    THEN WithoutSearch([error |-> "Server not fully initialized. ProjectConfig is missing."])
    ELSE
    LET project_root == get_project_root(config, a.project_name) IN
    IF project_root = NoRoot
    THEN WithoutSearch([error |-> "Project not found in projects.json"])
    ELSE IF raises
    THEN WithoutSearch([error |-> "Error searching identifiers"])
    ELSE
    LET all_files == find_src_files(project_root, kind, tree)
        all_tags  == CollectTags(all_files, project_root, tags_of_a_py)
        query_lower == LowerStr(a.query)
        limited   == LimitedMatches(all_tags, a)
        contexts  == [i \in 1..Len(limited) |-> context_of[i]]
    IN  [ret |-> [results |-> FormatResults(limited, contexts)],
         src_files |-> all_files,
         matching_tags |->
             SortTags(FilterTags(all_tags, query_lower, a.include_definitions,
                                 a.include_references), query_lower),
         context_ranges |->
             [i \in 1..Len(limited) |-> ContextRange(limited[i], a.context_lines)],
         rendered |-> contexts]

\* the number of tags render_tree is asked about
RenderCount(config, a, kind, tree, tags_of_a_py) ==
    Len(search_identifiers(config, a, kind, tree, tags_of_a_py,
                           [i \in 1..Len(tags_of_a_py) |-> "ctx"], FALSE).rendered)

\* one call of the tool, whatever the engine does
SearchCall ==
    /\ pc = "call"
    /\ \E raises \in BOOLEAN :
       \E context_of \in
             [1..(IF raises THEN 0
                  ELSE RenderCount(project_config, args, root_kind, fs, file_tags))
                 -> Contexts] :
          LET r == search_identifiers(project_config, args, root_kind, fs,
                                      file_tags, context_of, raises)
          IN  /\ ret' = r.ret
              /\ src_files' = r.src_files
              /\ matching_tags' = r.matching_tags
              /\ context_ranges' = r.context_ranges
              /\ rendered' = r.rendered
    /\ pc' = "done"
    /\ UNCHANGED <<fs, root_kind, project_config, file_tags, args, cwd,
                   engineObs, concVars>>

NextSearch == SearchCall

SpecSearch == InitSearch /\ [][NextSearch]_vars

\* ------------------------------------------------------------------
\* Properties of search_identifiers
\* ------------------------------------------------------------------
\* the call returned a result list
SearchDone == pc = "done" /\ DOMAIN ret = {"results"}

\* q occurs in name at the 0-based index k, letter case ignored
OccursAt(q, name, k) ==
    /\ k + Len(q) <= Len(name)
    /\ \A i \in 1..Len(q) : Lower(name[k + i]) = Lower(q[i])

ContainsIgnoringCase(q, name) == \E k \in 0..Len(name) : OccursAt(q, name, k)

\* q occurs in name letter for letter
IsSubstring(q, name) ==
    \E k \in 0..(Len(name) - Len(q)) : \A i \in 1..Len(q) : name[k + i] = q[i]

\* the substring position of the query in a matching name
Position(name) ==
    CHOOSE k \in 0..Len(name) :
        /\ OccursAt(args.query, name, k)
        /\ \A j \in 0..(k - 1) : ~OccursAt(args.query, name, j)

\* the result entry is the one made from the tag
EntryOf(entry, tag) ==
    /\ entry.file = tag.rel_fname
    /\ entry.line = tag.line
    /\ entry.name = tag.name
    /\ entry.kind = tag.kind

\* C1 as stated: the matches are ordered by substring position first, and
\* a definition precedes a reference only as the tie-break of equal positions.
C1_PositionFirst ==
    SearchDone =>
        \A i \in 1..Len(ret.results), j \in 1..Len(ret.results) :
            i < j =>
                /\ Position(ret.results[i].name) <= Position(ret.results[j].name)
                /\ Position(ret.results[i].name) = Position(ret.results[j].name)
                      => ~(ret.results[i].kind = "ref" /\ ret.results[j].kind = "def")

\* C1 amended: the matches are ordered by kind first (every definition
\* precedes every reference) and, within one kind, by substring position
\* (an earlier index first); the returned entries keep that order.
C1_KindFirstThenPosition ==
    SearchDone =>
        /\ \A i \in 1..Len(matching_tags), j \in 1..Len(matching_tags) :
              i < j =>
                 /\ matching_tags[i].kind = "ref" => matching_tags[j].kind = "ref"
                 /\ matching_tags[i].kind = matching_tags[j].kind
                       => Position(matching_tags[i].name) <= Position(matching_tags[j].name)
        /\ \A m \in 1..Len(ret.results), n \in 1..Len(ret.results) :
              m < n =>
                 /\ ret.results[m].kind = "ref" => ret.results[n].kind = "ref"
                 /\ ret.results[m].kind = ret.results[n].kind
                       => Position(ret.results[m].name) <= Position(ret.results[n].name)

\* a definition with the later position was sorted ahead of a reference with
\* the earlier one, and both were returned
C1_Witness ==
    /\ SearchDone
    /\ Len(ret.results) = 2
    /\ ret.results[1].kind = "def" /\ ret.results[2].kind = "ref"
    /\ Position(ret.results[1].name) = 1 /\ Position(ret.results[2].name) = 0
    /\ file_tags[1].kind = "ref"

\* the indices among the first k sorted matches whose context is not empty
RenderedAmong(k) == {i \in 1..k : rendered[i] # ""}

\* C2: for max_results >= 0 the truncation follows the sort: the results are,
\* in order, the entries of the first max_results elements of the sorted list
\* of all matches that have a context, so there are never more than
\* max_results of them and none sorts after an omitted renderable match.
C2_TruncatedAfterSort ==
    (SearchDone /\ args.max_results >= 0) =>
        LET k == Min(args.max_results, Len(matching_tags))
            kept == RenderedAmong(k)
        IN  /\ Len(rendered) = k
            /\ Len(ret.results) <= args.max_results
            /\ Len(ret.results) = Cardinality(kept)
            /\ \A i \in kept :
                  EntryOf(ret.results[Cardinality({j \in kept : j <= i})],
                          matching_tags[i])

\* two matches, the limit is one, and the sort moved the second extracted tag
\* ahead of the first: that one is the result
C2_Witness ==
    /\ SearchDone
    /\ args.max_results = 1
    /\ Len(matching_tags) = 2
    /\ Len(file_tags) = 2
    /\ matching_tags[1] = file_tags[2]
    /\ matching_tags[1] # file_tags[1]
    /\ Len(ret.results) = 1
    /\ EntryOf(ret.results[1], file_tags[2])

\* the project of the call is known to the loaded configuration
KnownProject ==
    /\ project_config # None
    /\ get_project_root(project_config, args.project_name) # NoRoot

\* C3 as stated: on a known project, when the query is a substring of the
\* name of an extracted identifier, the result set the call returns is not
\* empty and has an entry for that identifier.
C3_SubstringAlwaysFound ==
    (SearchDone /\ KnownProject) =>
        \A t \in 1..Len(file_tags) :
            IsSubstring(args.query, file_tags[t].name) =>
                /\ ret.results # <<>>
                /\ \E n \in 1..Len(ret.results) : ret.results[n].name = file_tags[t].name

\* the tag's kind is one the call asked for
KindIncluded(tag) ==
    \/ tag.kind = "def" /\ args.include_definitions
    \/ tag.kind = "ref" /\ args.include_references

\* how often x occurs in the sequence s
Count(s, x) == Cardinality({i \in 1..Len(s) : s[i] = x})

\* C3 amended: when the call returns a result list, every extracted tag
\* whose name has the query as a substring and whose kind is included is
\* among the sorted matches, and every match among the first max_results of
\* them whose context renders non-empty has an entry in the results.
C3_IncludedSubstringFound ==
    SearchDone =>
        /\ \A t \in 1..Len(file_tags) :
              (IsSubstring(args.query, file_tags[t].name) /\ KindIncluded(file_tags[t]))
                 => Count(matching_tags, file_tags[t]) = Count(file_tags, file_tags[t])
        /\ \A i \in 1..Len(matching_tags) :
              (i <= args.max_results /\ rendered[i] # "")
                 => \E n \in 1..Len(ret.results) : EntryOf(ret.results[n], matching_tags[i])

\* the query is a substring of two extracted names; one has an entry in the
\* results and the other, whose context came back empty, has none
C3_Witness ==
    /\ SearchDone
    /\ args.query = <<"b", "a">>
    /\ Len(file_tags) = 2
    /\ file_tags[1].kind = "ref" /\ file_tags[2].kind = "ref"
    /\ file_tags[1].line # file_tags[2].line
    /\ Len(matching_tags) = 2
    /\ rendered = <<"ctx", "">>
    /\ Len(ret.results) = 1
    /\ EntryOf(ret.results[1], file_tags[1])

\* C4: for every match returned, every line number requested for its
\* context window lies between 1 and the number of lines of the file.
C4_ContextClamped ==
    SearchDone =>
        \A i \in 1..Len(context_ranges) :
            rendered[i] # "" =>
                /\ 1 <= context_ranges[i].start_line
                /\ context_ranges[i].end_line <= NumLines

\* C8: every result entry has the query in its name, letter case ignored,
\* is a definition only if definitions are included and a reference only if
\* references are; with both flags false the result list is empty.
C8_ResultsSatisfyFilter ==
    SearchDone =>
        /\ \A n \in 1..Len(ret.results) :
              /\ ContainsIgnoringCase(args.query, ret.results[n].name)
              /\ ret.results[n].kind = "def" => args.include_definitions
              /\ ret.results[n].kind = "ref" => args.include_references
        /\ (~args.include_definitions /\ ~args.include_references) => ret.results = <<>>

\* references are excluded, a reference and a definition both match a query
\* of another letter case, and only the definition is returned
C8_Witness ==
    /\ SearchDone
    /\ args.query = <<"A">>
    /\ ~args.include_references /\ args.include_definitions
    /\ Len(file_tags) = 2
    /\ file_tags[1].kind = "ref" /\ file_tags[1].name = <<"b", "a">>
    /\ file_tags[2].kind = "def" /\ file_tags[2].name = <<"b", "a">>
    /\ Len(ret.results) = 1
    /\ ret.results[1].kind = "def"

\* ------------------------------------------------------------------
\* repo_map
\* ------------------------------------------------------------------
MaxPaths == 2

\* an optional list argument: None, or a list
NoList == [given |-> FALSE, items |-> <<>>]
ListOf(items) == [given |-> TRUE, items |-> items]

\* the truth value of an optional list: None and [] are false
Truthy(l) == l.given /\ l.items # <<>>

\* the file names a caller passes: relative, absolute, relative through ..
PathArgs ==
    {[abs |-> FALSE, parts |-> <<"a.py">>],
     [abs |-> TRUE,  parts |-> <<"proj", "a.py">>],
     [abs |-> FALSE, parts |-> <<"..", "proj", "a.py">>]}

RECURSIVE NormalizeInto(_, _)
\* pathlib's normalisation: "." dropped, ".." removes the component before it
NormalizeInto(done, rest) ==
    IF rest = <<>> THEN done
    ELSE IF Head(rest) = "." THEN NormalizeInto(done, Tail(rest))
    ELSE IF Head(rest) = ".."
         THEN NormalizeInto(IF done = <<>> THEN <<>>
                            ELSE SubSeq(done, 1, Len(done) - 1), Tail(rest))
    ELSE NormalizeInto(Append(done, Head(rest)), Tail(rest))

\* Path(f).resolve(): a relative path is taken from the working directory
Resolve(f, wd) ==
    [abs |-> TRUE,
     parts |-> NormalizeInto(<<>>, IF f.abs THEN f.parts ELSE wd.parts \o f.parts)]

\* lines 156-157
ResolveAll(files, wd) == [i \in 1..Len(files) |-> Resolve(files[i], wd)]

\* the test of line 150 left out
NothingToProcessNever(chat_files_list, effective_other_files) == FALSE

\* line 150
NothingToProcess(chat_files_list, effective_other_files) ==
    chat_files_list = <<>> /\ effective_other_files = <<>>

\* the engine's text returned as it is
MapValueAsIs(map_content) == map_content

\* line 188: map_content or "No repository map could be generated."
MapValue(map_content) ==
    IF map_content # "" THEN map_content
    ELSE "No repository map could be generated."

\* what the engine does once reached: its constructor raises, get_repo_map
\* raises, or get_repo_map returns a text that may be empty
EngineOutcomes == {"init_raised", "map_raised", "map_empty", "map_text"}

\* lines 179-191: what the call returns once get_repo_map has ended
MapResult(outcome) ==
    IF outcome = "map_raised"
    THEN [error |-> "Error generating repository map"]
    ELSE [map |-> MapValue(IF outcome = "map_text" THEN "MAP" ELSE "")]

\* the result of a call that never reached the engine
WithoutEngine(result) ==
    [ret |-> result, engine_calls |-> <<>>, engine_outcome |-> "none"]

\* lines 119-191
repo_map(config, a, wd, kind, tree, outcome) ==
    IF config = None
    THEN WithoutEngine([error |-> "Server not fully initialized. ProjectConfig is missing."])
    ELSE
    LET project_root == get_project_root(config, a.project_name) IN
    IF project_root = NoRoot
    THEN WithoutEngine([error |-> "Project not found in projects.json"])
    ELSE
    LET chat_files_list == IF Truthy(a.chat_files) THEN a.chat_files.items ELSE <<>>
        effective_other_files ==
            IF Truthy(a.other_files) THEN a.other_files.items
            ELSE find_src_files(project_root, kind, tree)
    IN
    IF NothingToProcess(chat_files_list, effective_other_files)
    THEN WithoutEngine([map |-> "No files found to generate a map."])
    ELSE
    LET root_path == Resolve(project_root, wd)
        abs_chat_files == ResolveAll(chat_files_list, wd)
        abs_chat_files_set == {abs_chat_files[i] : i \in 1..Len(abs_chat_files)}
        abs_other_files ==
            SelectSeq(ResolveAll(effective_other_files, wd),
                      LAMBDA f : f \notin abs_chat_files_set)
    IN
    IF outcome = "init_raised"
    THEN [ret |-> [error |-> "Failed to initialize RepoMap"],
          engine_calls |-> <<>>, engine_outcome |-> outcome]
    ELSE
    [ret |-> MapResult(outcome),
     engine_calls |-> <<[root |-> root_path, chat_files |-> abs_chat_files,
                         other_files |-> abs_other_files]>>,
     engine_outcome |-> outcome]

\* the directory trees of the projects repo_map is called on
MapTrees ==
    {{}, {<<"a.py">>}, {<<".git", "a.py">>, <<"venv", "a.py">>},
     {<<"a.py">>, <<"src", "b.py">>}}

OptionalPathLists == {NoList} \cup {ListOf(l) : l \in SeqsUpTo(PathArgs, MaxPaths)}

MapArgs ==
    [project_name : {"demo", "other"}, chat_files : OptionalPathLists,
     other_files : OptionalPathLists]

InitMap ==
    /\ root_kind \in {"dir", "file", "none"}
    /\ fs \in (IF root_kind = "dir" THEN MapTrees ELSE {{}})
    /\ cwd \in {ServerDir, ProjRoot}
    /\ project_config \in {None, LoadedConfig}
    /\ args \in MapArgs
    /\ pc = "call"
    /\ ret = None
    /\ engine_calls = <<>>
    /\ engine_outcome = "none"
    /\ src_files = <<>>
    /\ file_tags = <<>>
    /\ matching_tags = <<>>
    /\ context_ranges = <<>>
    /\ rendered = <<>>
    /\ requests = <<>>
    /\ engines = <<>>

\* one call of the tool, whatever the engine does
RepoMapCall ==
    /\ pc = "call"
    /\ \E outcome \in EngineOutcomes :
          LET r == repo_map(project_config, args, cwd, root_kind, fs, outcome)
          IN  /\ ret' = r.ret
              /\ engine_calls' = r.engine_calls
              /\ engine_outcome' = r.engine_outcome
    /\ pc' = "done"
    /\ UNCHANGED <<fs, root_kind, src_files, project_config, file_tags, args,
                   searchObs, cwd, concVars>>

NextMap == RepoMapCall

SpecMap == InitMap /\ [][NextMap]_vars

\* ------------------------------------------------------------------
\* Properties of repo_map
\* ------------------------------------------------------------------
\* the call gave neither chat files nor other files (None or an empty list)
EmptyInputs == args.chat_files.items = <<>> /\ args.other_files.items = <<>>

\* the result of a call with nothing to map, the engine left alone
NoFilesResult ==
    /\ ret = [map |-> "No files found to generate a map."]
    /\ engine_outcome = "none"
    /\ engine_calls = <<>>

\* C5 as stated: a call for a known project with chat_files and other_files
\* empty returns the no-files message and does not invoke the engine.
C5_EmptyInputsNoFiles ==
    (pc = "done" /\ KnownProject /\ EmptyInputs) => NoFilesResult

\* the project root holds nothing the file enumerator returns
ScanFindsNothing ==
    \/ root_kind = "none"
    \/ root_kind = "dir" /\ \A p \in fs : ~Visible(p)

\* C5 amended: a call for a known project with chat_files and other_files
\* empty, whose project root holds no file that the scan of the root
\* returns, gives the no-files message and does not invoke the engine.
C5_EmptyInputsEmptyScan ==
    (pc = "done" /\ KnownProject /\ EmptyInputs /\ ScanFindsNothing) => NoFilesResult

\* both lists are given and empty, the root holds only hidden and
\* dependency files, and the no-files message came back
C5_Witness ==
    /\ pc = "done"
    /\ KnownProject
    /\ args.chat_files = ListOf(<<>>) /\ args.other_files = ListOf(<<>>)
    /\ root_kind = "dir" /\ fs # {}
    /\ ret = [map |-> "No files found to generate a map."]

\* a path as the documentation resolves it: from the project root
AgainstProjectRoot(f) ==
    [abs |-> TRUE,
     parts |-> NormalizeInto(<<>>, IF f.abs THEN f.parts ELSE ProjRoot.parts \o f.parts)]

\* C6: every path handed to the engine is absolute, and a path supplied as
\* relative is resolved against the root of the named project.
C6_ResolvedAgainstProjectRoot ==
    (pc = "done" /\ engine_calls # <<>>) =>
        LET call == engine_calls[1]
        IN  /\ \A i \in 1..Len(call.chat_files) :
                  /\ call.chat_files[i].abs
                  /\ call.chat_files[i] = AgainstProjectRoot(args.chat_files.items[i])
            /\ \A i \in 1..Len(call.other_files) :
                  /\ call.other_files[i].abs
                  /\ Truthy(args.other_files) =>
                        \E j \in 1..Len(args.other_files.items) :
                            call.other_files[i] = AgainstProjectRoot(args.other_files.items[j])

\* the engine failed: its constructor or its map generation raised
EngineFailed == engine_outcome \in {"init_raised", "map_raised"}

\* C9: every completed call returns a dictionary with exactly one of the keys
\* 'map' and 'error': 'error' when the server is not initialized, the project
\* is unknown or the engine fails, otherwise 'map' with a non-empty text; an
\* engine failure is never anything but an 'error' result.
C9_MapOrError ==
    pc = "done" =>
        /\ DOMAIN ret \in {{"map"}, {"error"}}
        /\ DOMAIN ret = {"error"} <=> (~KnownProject \/ EngineFailed)
        /\ DOMAIN ret = {"map"} => ret.map # ""

\* the engine returned an empty text and the explicit message replaced it
C9_Witness ==
    /\ pc = "done"
    /\ engine_outcome = "map_empty"
    /\ engine_calls # <<>>
    /\ ret = [map |-> "No repository map could be generated."]

\* ------------------------------------------------------------------
\* Concurrent requests.  repo_map gives up the event loop once, at the
\* await of line 180, while get_repo_map runs in a worker thread;
\* search_identifiers has no await and runs in one piece.
\* ------------------------------------------------------------------
NumRequests == 2

\* the tags of a.py while the concurrent requests run
ConcTags ==
    <<[rel_fname |-> <<"a.py">>, name |-> <<"a", "B">>, kind |-> "ref", line |-> 1],
      [rel_fname |-> <<"a.py">>, name |-> <<"b", "a">>, kind |-> "def", line |-> 2]>>

ConcRequests ==
    [tool : {"repo_map"},
     args : [project_name : {"demo", "other"},
             chat_files : {NoList, ListOf(<<[abs |-> FALSE, parts |-> <<"a.py">>]>>)},
             other_files : {NoList}],
     outcome : {"init_raised", "map_raised", "map_text"}]
    \cup
    [tool : {"search_identifiers"},
     args : [project_name : {"DEMO", "other"}, query : {<<"A">>, <<"b", "a">>},
             max_results : {MaxResults}, context_lines : {0},
             include_definitions : {TRUE}, include_references : {TRUE}],
     outcome : {"raised", "returned"}]

\* a request that has not begun
Pending(q) ==
    [tool |-> q.tool, args |-> q.args, outcome |-> q.outcome, pc |-> "pending",
     initialized |-> FALSE, engine |-> 0, ret |-> None]

InitConc ==
    /\ root_kind = "dir"
    /\ fs = {<<"a.py">>, <<".hidden">>}
    /\ cwd = ServerDir
    /\ project_config = None
    /\ file_tags = ConcTags
    /\ \E qs \in [1..NumRequests -> ConcRequests] :
          requests = [r \in 1..NumRequests |-> Pending(qs[r])]
    /\ engines = <<>>
    /\ pc = "serving"
    /\ args = None
    /\ ret = None
    /\ src_files = <<>>
    /\ matching_tags = <<>>
    /\ context_ranges = <<>>
    /\ rendered = <<>>
    /\ engine_calls = <<>>
    /\ engine_outcome = "none"

\* one engine for the whole module, made by the first request that needs it
ConstructEngineOnce(r, call, outcome) ==
    IF engines = <<>>
    THEN [engines |-> <<[owner |-> r, call |-> call, outcome |-> outcome]>>, id |-> 1]
    ELSE [engines |-> engines, id |-> 1]

\* lines 165-174 and 257-264: RepoMap(...) makes a new instance
ConstructEngine(r, call, outcome) ==
    [engines |-> Append(engines, [owner |-> r, call |-> call, outcome |-> outcome]),
     id |-> Len(engines) + 1]

\* lines 119-180: the call up to its await, or to an earlier return
RepoMapBegin(r) ==
    /\ requests[r].tool = "repo_map"
    /\ requests[r].pc = "pending"
    /\ LET q == requests[r]
           res == repo_map(project_config, q.args, cwd, root_kind, fs, q.outcome)
       IN  IF res.engine_calls = <<>>
           THEN /\ requests' = [requests EXCEPT ![r].pc = "done",
                                                ![r].initialized = project_config # None,
                                                ![r].ret = res.ret]
                /\ UNCHANGED engines
           ELSE LET made == ConstructEngine(r, res.engine_calls[1], q.outcome)
                IN  /\ requests' = [requests EXCEPT ![r].pc = "running",
                                                    ![r].initialized = TRUE,
                                                    ![r].engine = made.id]
                    /\ engines' = made.engines
    /\ UNCHANGED <<fs, root_kind, pc, src_files, project_config, file_tags,
                   args, ret, searchObs, cwd, engineObs>>

\* lines 180-191: the worker thread has ended and the call returns
RepoMapFinish(r) ==
    /\ requests[r].tool = "repo_map"
    /\ requests[r].pc = "running"
    /\ requests' = [requests EXCEPT
                       ![r].pc = "done",
                       ![r].ret = MapResult(engines[requests[r].engine].outcome)]
    /\ UNCHANGED <<fs, root_kind, pc, src_files, project_config, file_tags,
                   args, ret, searchObs, cwd, engineObs, engines>>

\* what render_tree returns for the tags of ConcTags
ConcContexts == [i \in 1..Len(ConcTags) |-> "ctx"]

\* lines 244-321: the whole call
SearchRequest(r) ==
    /\ requests[r].tool = "search_identifiers"
    /\ requests[r].pc = "pending"
    /\ LET q == requests[r]
           known == /\ project_config # None
                    /\ get_project_root(project_config, q.args.project_name) # NoRoot
           made == ConstructEngine(r, [root |-> get_project_root(project_config,
                                                                 q.args.project_name)],
                                   q.outcome)
           res == search_identifiers(project_config, q.args, root_kind, fs, file_tags,
                                     ConcContexts,
                                     known /\ made.engines[made.id].outcome = "raised")
       IN  /\ engines' = IF known THEN made.engines ELSE engines
           /\ requests' = [requests EXCEPT ![r].pc = "done",
                                           ![r].initialized = project_config # None,
                                           ![r].engine = IF known THEN made.id ELSE 0,
                                           ![r].ret = res.ret]
    /\ UNCHANGED <<fs, root_kind, pc, src_files, project_config, file_tags,
                   args, ret, searchObs, cwd, engineObs>>

NextConc ==
    \/ Lifespan
    \/ \E r \in 1..NumRequests : RepoMapBegin(r)
    \/ \E r \in 1..NumRequests : RepoMapFinish(r)
    \/ \E r \in 1..NumRequests : SearchRequest(r)

SpecConc == InitConc /\ [][NextConc]_vars

\* ------------------------------------------------------------------
\* Properties of concurrent requests
\* ------------------------------------------------------------------
\* every request that holds an engine holds one made for it alone
OwnEngine ==
    \A r \in DOMAIN requests :
        requests[r].engine # 0 =>
            /\ requests[r].engine \in DOMAIN engines
            /\ engines[requests[r].engine].owner = r

\* what request r returns when it is the only request of a started server
ResultAlone(r) ==
    IF requests[r].tool = "repo_map"
    THEN repo_map(LoadedConfig, requests[r].args, cwd, root_kind, fs,
                  requests[r].outcome).ret
    ELSE search_identifiers(LoadedConfig, requests[r].args, root_kind, fs, file_tags,
                            ConcContexts, requests[r].outcome = "raised").ret

\* a finished request that began after startup returned what it returns alone
SameAsAlone ==
    \A r \in DOMAIN requests :
        (requests[r].pc = "done" /\ requests[r].initialized)
            => requests[r].ret = ResultAlone(r)

\* a step that changes project_config is the startup step, not a request's
ConfigWrittenAtStartupOnly ==
    project_config' # project_config =>
        /\ project_config = None
        /\ requests' = requests
        /\ engines' = engines

====
